---- MODULE Spec2Model ----
(***************************************************************************)
(* Formula compilation of pycel (src/src/pycel/excelparser.py):            *)
(*   raw tokens -> Tokenizer._items -> ExcelParser.parse_to_rpn            *)
(*              -> ExcelParser.build_ast -> ASTNode.emit                   *)
(* The base lexer (openpyxl) is an external library: the model starts from *)
(* the token list it hands to Tokenizer._items.                            *)
(***************************************************************************)
EXTENDS Integers, Sequences, FiniteSets, TLC

VARIABLES
    raw,          \* the base lexer's token list (the formula)
    context,      \* emit: the evaluation context handed to emit (given = FALSE: None)
    items,        \* Tokenizer.items after _items
    tokens,       \* parse_to_rpn: the amended token stream
    i,            \* parse_to_rpn: index of the next token of the main loop
    output,       \* parse_to_rpn: output queue of AST nodes (the postfix sequence)
    stack,        \* parse_to_rpn: operator / bracket stack
    were_values,  \* parse_to_rpn: per function level, a value was seen
    arg_count,    \* parse_to_rpn: per function level, separators counted
    j,            \* build_ast: index of the next postfix node
    bstack,       \* build_ast: production stack (node ids)
    ast,          \* build_ast: the DiGraph [nodes, pos (node attribute), edges <<child, parent>>]
    root,         \* build_ast: the returned node (0: none)
    code,         \* emit: the emitted text
    err,          \* the exception that ended the compilation ("none": no exception)
    pc            \* where the compilation stands

vars == <<raw, context, items, tokens, i, output, stack, were_values, arg_count,
          j, bstack, ast, root, code, err, pc>>

-----------------------------------------------------------------------------
(* Token types and subtypes *)

OPERAND == "OPERAND"
FUNC == "FUNC"
ARRAY == "ARRAY"
ARRAYROW == "ARRAYROW"
PAREN == "PAREN"
SEP == "SEP"
OP_PRE == "OPERATOR-PREFIX"
OP_IN == "OPERATOR-INFIX"
OP_POST == "OPERATOR-POSTFIX"
WSPACE == "WHITE-SPACE"

OPEN == "OPEN"
CLOSE == "CLOSE"
RANGE == "RANGE"
NUMBER == "NUMBER"
ARG == "ARG"
ROW == "ROW"
INTERSECT == "INTERSECT"
NOSUB == ""

Token(value, type, subtype) == [value |-> value, type |-> type, subtype |-> subtype]

is_operator(t) == t.type \in {OP_PRE, OP_IN, OP_POST}

is_funcopen(t) == t.subtype = OPEN /\ t.type \in {FUNC, ARRAY, ARRAYROW}

\* Token.matches with the value filter left out (type_ and subtype given)
matches(t, type, subtype) == t.type = type /\ t.subtype = subtype

-----------------------------------------------------------------------------
(* Tokenizer._items *)

PrevIsValueEnd(p) ==
    matches(p, FUNC, CLOSE) \/ matches(p, PAREN, CLOSE) \/ p.type = OPERAND

NextIsValueStart(n) ==
    matches(n, FUNC, OPEN) \/ matches(n, PAREN, OPEN) \/ n.type = OPERAND

\* what the loop body appends for the k-th raw token (prev/next are None at the ends)
ItemsOne(t, k) ==
    LET token == t[k]
        noPrev == (k = 1)
        noNext == (k = Len(t))
    IN  IF token.type # WSPACE \/ noPrev \/ noNext
        THEN <<token>>
        ELSE IF PrevIsValueEnd(t[k - 1]) /\ NextIsValueStart(t[k + 1])
             THEN <<Token(token.value, OP_IN, INTERSECT)>>
             ELSE <<>>

RECURSIVE ItemsFrom(_, _)
ItemsFrom(t, k) ==
    IF k > Len(t) THEN <<>> ELSE ItemsOne(t, k) \o ItemsFrom(t, k + 1)

Tokenizer_items(t) == ItemsFrom(t, 1)

-----------------------------------------------------------------------------
(* ExcelParser.parse_to_rpn: the amended token stream *)

AmendOne(token) ==
    IF matches(token, FUNC, OPEN)
        THEN <<token, Token("(", PAREN, OPEN)>>
    ELSE IF matches(token, FUNC, CLOSE)
        THEN <<Token(")", PAREN, CLOSE)>>
    ELSE IF matches(token, ARRAY, OPEN)
        THEN <<token, Token("(", PAREN, OPEN), Token("", ARRAYROW, OPEN),
               Token("(", PAREN, OPEN)>>
    ELSE IF matches(token, ARRAY, CLOSE)
        THEN <<token, Token(")", PAREN, CLOSE)>>
    ELSE IF matches(token, SEP, ROW)
        THEN <<Token(")", PAREN, CLOSE), Token(",", SEP, ARG),
               Token("", ARRAYROW, OPEN), Token("(", PAREN, OPEN)>>
    ELSE IF matches(token, PAREN, OPEN)
        THEN <<Token("(", PAREN, OPEN)>>
    ELSE IF matches(token, PAREN, CLOSE)
        THEN <<Token(")", PAREN, CLOSE)>>
    ELSE <<token>>

RECURSIVE AmendFrom(_, _)
AmendFrom(t, k) ==
    IF k > Len(t) THEN <<>> ELSE AmendOne(t[k]) \o AmendFrom(t, k + 1)

AmendTokens(t) == AmendFrom(t, 1)

-----------------------------------------------------------------------------
(* Exceptions *)

NoError == [kind |-> "none", msg |-> ""]
Raise(kind, msg) == [kind |-> kind, msg |-> msg]

Mismatched == Raise("ParserError", "Mismatched or misplaced parentheses")
MissingOperand == Raise("ParserError", "operator missing operand")
UnknownToken == Raise("ParserError", "Unknown token type")

-----------------------------------------------------------------------------
(* ASTNode.create: the node class is chosen from the token *)

NodeClass(token) ==
    IF token.type = OPERAND
        THEN (IF token.subtype = RANGE THEN "RangeNode" ELSE "OperandNode")
    ELSE IF is_funcopen(token) THEN "FunctionNode"
    ELSE IF is_operator(token) THEN "OperatorNode"
    ELSE "unknown"

\* FunctionNode.__init__ sets num_args = 0; the other classes carry no count
ASTNode_create(token) == [token |-> token, cls |-> NodeClass(token), num_args |-> 0]

-----------------------------------------------------------------------------
(* Operator and ExcelParser.operators *)

OperatorKeys ==
    {":", " ", ",", "u-", "%", "^", "*", "/", "+", "-", "&",
     "=", "<", ">", "<=", ">=", "<>"}

Precedence(key) ==
    CASE key \in {":", " ", ","} -> 8
      [] key = "u-" -> 7
      [] key = "%" -> 6
      [] key = "^" -> 5
      [] key \in {"*", "/"} -> 4
      [] key \in {"+", "-"} -> 3
      [] key = "&" -> 2
      [] OTHER -> 1

Associativity(key) == "left"

\* Operator.__lt__ without its equal-precedence case (ties no longer pop)
Operator_lt_NoTie(o1, o2) == Precedence(o1) < Precedence(o2)

\* Operator.__lt__
Operator_lt(o1, o2) ==
    \/ Precedence(o1) < Precedence(o2)
    \/ (Associativity(o1) = "left" /\ Precedence(o1) = Precedence(o2))

\* the table key of an operator token: a prefix minus is 'u-'
OperatorKey(token) ==
    IF token.type = OP_PRE /\ token.value = "-" THEN "u-" ELSE token.value

-----------------------------------------------------------------------------
(* ExcelParser.parse_to_rpn: the main loop.  Python lists: the top is last. *)

Top(s) == s[Len(s)]
Pop(s) == SubSeq(s, 1, Len(s) - 1)
SetTop(s, v) == [s EXCEPT ![Len(s)] = v]

\* were_values[-1] = True when there is an enclosing level
MarkValue(wv) == IF wv = <<>> THEN wv ELSE SetTop(wv, TRUE)

\* while stack and stack[-1].subtype != OPEN: output.append(create(stack.pop()))
RECURSIVE PopUntilOpen(_, _)
PopUntilOpen(stk, out) ==
    IF stk = <<>> \/ Top(stk).subtype = OPEN
        THEN [stack |-> stk, output |-> out, err |-> NoError]
    ELSE IF NodeClass(Top(stk)) = "unknown"
        THEN [stack |-> Pop(stk), output |-> out, err |-> UnknownToken]
    ELSE PopUntilOpen(Pop(stk), Append(out, ASTNode_create(Top(stk))))

\* while stack and stack[-1].is_operator: pop while o1 < o2, else break
RECURSIVE PopOperators(_, _, _)
PopOperators(o1, stk, out) ==
    IF stk = <<>> \/ ~is_operator(Top(stk))
        THEN [stack |-> stk, output |-> out]
    ELSE IF Operator_lt(o1, OperatorKey(Top(stk)))
        THEN PopOperators(o1, Pop(stk), Append(out, ASTNode_create(Top(stk))))
    ELSE [stack |-> stk, output |-> out]

RpnState(out, stk, wv, ac, e) ==
    [output |-> out, stack |-> stk, were_values |-> wv, arg_count |-> ac, err |-> e]

RpnOperand(token, S) ==
    RpnState(Append(S.output, ASTNode_create(token)), S.stack,
             MarkValue(S.were_values), S.arg_count, NoError)

RpnFuncOpen(token, S) ==
    LET t == IF token.type \in {ARRAY, ARRAYROW}
             THEN Token(token.type, token.type, token.subtype)
             ELSE token
    IN  RpnState(S.output, Append(S.stack, t),
                 Append(MarkValue(S.were_values), FALSE),
                 Append(S.arg_count, 0), NoError)

RpnSeparator(token, S) ==
    LET p == PopUntilOpen(S.stack, S.output)
    IN  IF p.err # NoError
            THEN RpnState(p.output, p.stack, S.were_values, S.arg_count, p.err)
        ELSE IF Len(S.were_values) = 0
            THEN RpnState(p.output, p.stack, S.were_values, S.arg_count, Mismatched)
        ELSE IF Top(S.were_values) /\ S.arg_count = <<>>
            THEN RpnState(p.output, p.stack, Pop(S.were_values), S.arg_count,
                          Raise("IndexError", "list index out of range"))
        ELSE RpnState(p.output, p.stack, SetTop(S.were_values, FALSE),
                      IF Top(S.were_values)
                          THEN SetTop(S.arg_count, Top(S.arg_count) + 1)
                          ELSE S.arg_count,
                      NoError)

RpnOperator(token, S) ==
    IF OperatorKey(token) \notin OperatorKeys
        THEN RpnState(S.output, S.stack, S.were_values, S.arg_count,
                      Raise("KeyError", token.value))
    ELSE LET p == PopOperators(OperatorKey(token), S.stack, S.output)
         IN  RpnState(p.output, Append(p.stack, token), S.were_values,
                      S.arg_count, NoError)

RpnOpen(token, S) ==
    RpnState(S.output, Append(S.stack, token), S.were_values, S.arg_count, NoError)

RpnClose(token, S) ==
    LET p == PopUntilOpen(S.stack, S.output)
    IN  IF p.err # NoError
            THEN RpnState(p.output, p.stack, S.were_values, S.arg_count, p.err)
        ELSE IF p.stack = <<>>
            THEN RpnState(p.output, p.stack, S.were_values, S.arg_count, Mismatched)
        ELSE LET stk == Pop(p.stack)
             IN  IF stk # <<>> /\ is_funcopen(Top(stk))
                 THEN IF S.arg_count = <<>> \/ S.were_values = <<>>
                      THEN RpnState(p.output, Pop(stk), S.were_values, S.arg_count,
                                    Raise("IndexError", "pop from empty list"))
                      ELSE LET f == [ASTNode_create(Top(stk)) EXCEPT !.num_args =
                                        Top(S.arg_count)
                                        + (IF Top(S.were_values) THEN 1 ELSE 0)]
                           IN  RpnState(Append(p.output, f), Pop(stk),
                                        Pop(S.were_values), Pop(S.arg_count), NoError)
                 ELSE RpnState(p.output, stk, S.were_values, S.arg_count, NoError)

\* the body of `for token in tokens`
RpnToken(token, S) ==
    IF token.type = OPERAND THEN RpnOperand(token, S)
    ELSE IF token.type # PAREN /\ token.subtype = OPEN THEN RpnFuncOpen(token, S)
    ELSE IF token.type = SEP THEN RpnSeparator(token, S)
    ELSE IF is_operator(token) THEN RpnOperator(token, S)
    ELSE IF token.subtype = OPEN THEN RpnOpen(token, S)
    ELSE IF token.subtype = CLOSE THEN RpnClose(token, S)
    ELSE RpnState(S.output, S.stack, S.were_values, S.arg_count, NoError)

\* the flush with no check for a bracket left on the stack: brackets are dropped
RECURSIVE RpnFlush_NoCheck(_, _)
RpnFlush_NoCheck(stk, out) ==
    IF stk = <<>> THEN [stack |-> stk, output |-> out, err |-> NoError]
    ELSE IF NodeClass(Top(stk)) = "unknown" THEN RpnFlush_NoCheck(Pop(stk), out)
    ELSE RpnFlush_NoCheck(Pop(stk), Append(out, ASTNode_create(Top(stk))))

\* while stack: a bracket left on the stack raises, an operator is output
RECURSIVE RpnFlush(_, _)
RpnFlush(stk, out) ==
    IF stk = <<>> THEN [stack |-> stk, output |-> out, err |-> NoError]
    ELSE IF Top(stk).subtype \in {OPEN, CLOSE}
        THEN [stack |-> stk, output |-> out, err |-> Mismatched]
    ELSE IF NodeClass(Top(stk)) = "unknown"
        THEN [stack |-> Pop(stk), output |-> out, err |-> UnknownToken]
    ELSE RpnFlush(Pop(stk), Append(out, ASTNode_create(Top(stk))))

-----------------------------------------------------------------------------
(* ExcelParser.build_ast: one postfix node reduced over the production      *)
(* stack.  A node is named by its index in the postfix sequence.  The       *)
(* DiGraph is its node set, the nodes' 'pos' attribute and its edge set.    *)

\* DiGraph.add_node(a, pos=p)
add_node(G, a, p) ==
    [G EXCEPT !.nodes = @ \cup {a},
              !.pos = [x \in (DOMAIN @) \cup {a} |-> IF x = a THEN p ELSE @[x]]]

\* DiGraph.add_edge(a, n): both ends become nodes of the graph
add_edge(G, a, n) ==
    [G EXCEPT !.nodes = @ \cup {a, n}, !.edges = @ \cup {<<a, n>>}]

\* stack[-k:] and del stack[-k:] (k > 0; a k beyond the length takes all)
LastK(s, k) == SubSeq(s, IF k >= Len(s) THEN 1 ELSE Len(s) - k + 1, Len(s))
DropK(s, k) == SubSeq(s, 1, IF k >= Len(s) THEN 0 ELSE Len(s) - k)

\* for i, a in enumerate(args): add_node(a, pos=i); add_edge(a, node)
RECURSIVE AttachArgs(_, _, _, _)
AttachArgs(G, args, k, n) ==
    IF k > Len(args) THEN G
    ELSE AttachArgs(add_edge(add_node(G, args[k], k - 1), args[k], n), args, k + 1, n)

BuildState(stk, G, e) == [bstack |-> stk, graph |-> G, err |-> e]

BuildInfix(n, stk, G) ==
    IF Len(stk) < 2 THEN BuildState(stk, G, MissingOperand)
    ELSE LET arg2 == Top(stk)
             arg1 == Top(Pop(stk))
             G1 == add_node(add_node(G, arg1, 0), arg2, 1)
             G2 == add_edge(add_edge(G1, arg1, n), arg2, n)
         IN  BuildState(Append(Pop(Pop(stk)), n), G2, NoError)

BuildUnary(n, stk, G) ==
    IF Len(stk) < 1 THEN BuildState(stk, G, MissingOperand)
    ELSE LET arg1 == Top(stk)
         IN  BuildState(Append(Pop(stk), n),
                        add_edge(add_node(G, arg1, 1), arg1, n), NoError)

BuildFunction(n, node, stk, G) ==
    IF node.num_args # 0
    THEN BuildState(Append(DropK(stk, node.num_args), n),
                    AttachArgs(G, LastK(stk, node.num_args), 1, n), NoError)
    ELSE BuildState(Append(stk, n), G, NoError)

BuildLeaf(n, stk, G) == BuildState(Append(stk, n), add_node(G, n, 0), NoError)

\* the body of `for node in rpn_expression`
BuildNode(n, node, stk, G) ==
    IF node.cls = "OperatorNode"
        THEN IF node.token.type = OP_IN THEN BuildInfix(n, stk, G)
             ELSE BuildUnary(n, stk, G)
    ELSE IF node.cls = "FunctionNode" THEN BuildFunction(n, node, stk, G)
    ELSE BuildLeaf(n, stk, G)

-----------------------------------------------------------------------------
(* ASTNode.children / ASTNode.parent over the graph `ast` *)

Predecessors(n) == {c \in ast.nodes : <<c, n>> \in ast.edges}
Successors(n) == {q \in ast.nodes : <<n, q>> \in ast.edges}

\* sorted(args, key=pos)
RECURSIVE SortByPos(_)
SortByPos(S) ==
    IF S = {} THEN <<>>
    ELSE LET c == CHOOSE x \in S : \A y \in S : ast.pos[x] <= ast.pos[y]
         IN  <<c>> \o SortByPos(S \ {c})

children(n) == SortByPos(Predecessors(n))

\* next(successors, None): 0 stands for None
parent(n) == IF Successors(n) = {} THEN 0 ELSE CHOOSE q \in Successors(n) : TRUE

NotInGraph == Raise("NetworkXError", "The node is not in the digraph.")

-----------------------------------------------------------------------------
(* emit *)

Text(s) == [err |-> NoError, text |-> s]
Fail(e) == [err |-> e, text |-> ""]

\* str.lower() on the token values the model uses
Lower(v) ==
    CASE v = "SUM(" -> "sum("
      [] v = "IF(" -> "if("
      [] v = "NOW(" -> "now("
      [] v = "LINEST(" -> "linest("
      [] v = "LINESTMARIO(" -> "linestmario("
      [] v = "ARRAY" -> "array"
      [] v = "ARRAYROW" -> "arrayrow"
      [] OTHER -> v

\* str.strip('(') on the lower-cased function names
StripParen(v) ==
    CASE v = "sum(" -> "sum"
      [] v = "if(" -> "if"
      [] v = "now(" -> "now"
      [] v = "linest(" -> "linest"
      [] v = "linestmario(" -> "linestmario"
      [] OTHER -> v

\* OperatorNode.op_map.get(xop, xop)
op_map(xop) ==
    CASE xop = "^" -> "**"
      [] xop = "=" -> "=="
      [] xop = "&" -> "+"
      [] xop = " " -> "+"
      [] OTHER -> xop

\* FunctionNode.func_map.get(func, func)
func_map(func) ==
    CASE func = "ln" -> "xlog"
      [] func = "min" -> "xmin"
      [] func = "max" -> "xmax"
      [] func = "sum" -> "xsum"
      [] func = "gammaln" -> "lgamma"
      [] func = "round" -> "xround"
      [] OTHER -> func

\* str.startswith on the emitted operator symbols
StartsWith(op, ch) ==
    CASE ch = "<" -> op \in {"<", "<=", "<>"}
      [] ch = ">" -> op \in {">", ">="}
      [] OTHER -> FALSE

\* "({} if {} is not None else 0)".format(aa, aa)
NoneGuard(aa) == "(" \o aa \o " if " \o aa \o " is not None else 0)"

IsNumberToken(t) == matches(t, OPERAND, NUMBER)

\* pycel.excelutil.is_range on the addresses the model uses
is_range(rng) == rng \in {"A1:B2"}

\* RangeNode.emit: the model's addresses carry no '$' and no sheet of their
\* own, so the context's current sheet qualifies them when a context is given
EmitRange(node) ==
    LET rng == node.token.value
        sheet == IF context.given THEN context.sheet \o "!" ELSE ""
    IN  IF is_range(rng)
        THEN Text("eval_range(\"" \o sheet \o rng \o "\")")
        ELSE Text("eval_cell(\"" \o sheet \o rng \o "\")")

\* OperandNode.emit for NUMBER operands: the value unchanged
EmitOperand(node) == Text(node.token.value)

RECURSIVE emit(_)
RECURSIVE comma_join_emit(_, _, _)

\* ", ".join(fmt.format(n.emit()) for n in kids), from the k-th on;
\* bracket: the fmt_str '[{}]' of func_array
comma_join_emit(kids, k, bracket) ==
    IF k > Len(kids) THEN Text("")
    ELSE LET e == emit(kids[k])
         IN  IF e.err # NoError THEN e
             ELSE LET one == IF bracket THEN "[" \o e.text \o "]" ELSE e.text
                      rest == comma_join_emit(kids, k + 1, bracket)
                  IN  IF rest.err # NoError THEN rest
                      ELSE IF k = Len(kids) THEN Text(one)
                      ELSE Text(one \o ", " \o rest.text)

\* the magnitude-comparison branches of OperatorNode.emit
EmitLess(args, op) ==
    LET a0 == emit(args[1])
    IN  IF a0.err # NoError THEN a0
        ELSE LET aa == IF ~IsNumberToken(output[args[1]].token)
                       THEN NoneGuard(a0.text) ELSE a0.text
                 a1 == emit(args[2])
             IN  IF a1.err # NoError THEN a1
                 ELSE Text(aa \o " " \o op \o " " \o a1.text)

EmitGreater(args, op) ==
    LET a1 == emit(args[2])
    IN  IF a1.err # NoError THEN a1
        ELSE LET aa == IF ~IsNumberToken(output[args[2]].token)
                       THEN NoneGuard(a1.text) ELSE a1.text
                 a0 == emit(args[1])
             IN  IF a0.err # NoError THEN a0
                 ELSE Text(a0.text \o " " \o op \o " " \o aa)

EmitPlain(args, op) ==
    LET a0 == emit(args[1])
    IN  IF a0.err # NoError THEN a0
        ELSE IF Len(args) < 2 THEN Fail(Raise("IndexError", "list index out of range"))
        ELSE LET a1 == emit(args[2])
                 sop == IF op # "," THEN " " \o op ELSE op
             IN  IF a1.err # NoError THEN a1
                 ELSE Text(a0.text \o sop \o " " \o a1.text)

\* "(" + ss + ")" unless the node is the root or an argument of a function
Parenthesize(n, e) ==
    IF e.err = NoError /\ parent(n) # 0 /\ output[parent(n)].cls # "FunctionNode"
    THEN Text("(" \o e.text \o ")")
    ELSE e

\* OperatorNode.emit
EmitOperator(n) ==
    IF n \notin ast.nodes THEN Fail(NotInGraph)
    ELSE LET node == output[n]
             args == children(n)
             op == op_map(node.token.value)
         IN  IF node.token.type = OP_PRE
             THEN LET a0 == emit(args[1])
                  IN  IF a0.err # NoError THEN a0 ELSE Text("-" \o a0.text)
             ELSE IF op = "**" /\ parent(n) # 0
                     /\ Lower(output[parent(n)].token.value) = "linest("
             THEN emit(args[1])
             ELSE IF StartsWith(op, "<") THEN Parenthesize(n, EmitLess(args, op))
             ELSE IF StartsWith(op, ">") THEN Parenthesize(n, EmitGreater(args, op))
             ELSE Parenthesize(n, EmitPlain(args, op))

\* FunctionNode.func_if
func_if(n) ==
    IF n \notin ast.nodes THEN Fail(NotInGraph)
    ELSE LET kids == children(n)
             joined == comma_join_emit(kids, 1, FALSE)
         IN  IF joined.err # NoError THEN joined
             ELSE IF Len(kids) + 1 \in {3, 4}
             THEN Text("(" \o emit(kids[2]).text \o " if " \o emit(kids[1]).text
                       \o " else "
                       \o (IF Len(kids) = 2 THEN "0" ELSE emit(kids[3]).text) \o ")")
             ELSE Fail(Raise("ParserError", "IF with %s arguments not supported"))

\* func_array without its single-row case: every row is bracketed
func_array_AlwaysRows(n) ==
    IF n \notin ast.nodes THEN Fail(NotInGraph)
    ELSE LET e == comma_join_emit(children(n), 1, TRUE)
         IN  IF e.err # NoError THEN e ELSE Text("[" \o e.text \o "]")

\* FunctionNode.func_array
func_array(n) ==
    IF n \notin ast.nodes THEN Fail(NotInGraph)
    ELSE LET kids == children(n)
         IN  IF Len(kids) = 1
             THEN LET e == emit(kids[1])
                  IN  IF e.err # NoError THEN e ELSE Text("[" \o e.text \o "]")
             ELSE LET e == comma_join_emit(kids, 1, TRUE)
                  IN  IF e.err # NoError THEN e ELSE Text("[" \o e.text \o "]")

\* FunctionNode.func_arrayrow
func_arrayrow(n) ==
    IF n \notin ast.nodes THEN Fail(NotInGraph)
    ELSE comma_join_emit(children(n), 1, FALSE)

\* pycel.excelutil.get_linest_degree(context.excel, context.curcell): the
\* (degree, coefficient index) the external resolution answers for the context
get_linest_degree(ctx) == <<ctx.degree, ctx.coef>>

\* "%s" % n
Str(n) == ToString(n)

\* func_linest with the parent test left out of the suffix condition
func_linest_NoParentTest(n) ==
    IF n \notin ast.nodes THEN Fail(NotInGraph)
    ELSE LET func == StripParen(Lower(output[n].token.value))
             joined == comma_join_emit(children(n), 1, FALSE)
             dc == IF ~context.given THEN <<-1, -1>> ELSE get_linest_degree(context)
             call == func \o "(" \o joined.text
                     \o (IF func = "linest"
                         THEN ", degree=" \o Str(dc[1]) \o ")" ELSE ")")
         IN  IF joined.err # NoError THEN joined
             ELSE IF ~(dc[1] = 1)
             THEN Text(call \o "[" \o Str(dc[2] - 1) \o "]")
             ELSE Text(call)

\* FunctionNode.func_linest (func_linestmario is the same handler)
func_linest(n) ==
    IF n \notin ast.nodes THEN Fail(NotInGraph)
    ELSE LET func == StripParen(Lower(output[n].token.value))
             joined == comma_join_emit(children(n), 1, FALSE)
             dc == IF ~context.given THEN <<-1, -1>> ELSE get_linest_degree(context)
             call == func \o "(" \o joined.text
                     \o (IF func = "linest"
                         THEN ", degree=" \o Str(dc[1]) \o ")" ELSE ")")
         IN  IF joined.err # NoError THEN joined
             ELSE IF ~(dc[1] = 1 /\ parent(n) # 0)
             THEN Text(call \o "[" \o Str(dc[2] - 1) \o "]")
             ELSE Text(call)

\* FunctionNode.emit: a special handler by name, else the mapped call
EmitFunction(n) ==
    LET func == StripParen(Lower(output[n].token.value))
    IN  IF func = "if" THEN func_if(n)
        ELSE IF func \in {"linest", "linestmario"} THEN func_linest(n)
        ELSE IF func = "array" THEN func_array(n)
        ELSE IF func = "arrayrow" THEN func_arrayrow(n)
        ELSE IF n \notin ast.nodes THEN Fail(NotInGraph)
        ELSE LET e == comma_join_emit(children(n), 1, FALSE)
             IN  IF e.err # NoError THEN e
                 ELSE Text(func_map(func) \o "(" \o e.text \o ")")

emit(n) ==
    CASE output[n].cls = "OperandNode" -> EmitOperand(output[n])
      [] output[n].cls = "RangeNode" -> EmitRange(output[n])
      [] output[n].cls = "OperatorNode" -> EmitOperator(n)
      [] output[n].cls = "FunctionNode" -> EmitFunction(n)

-----------------------------------------------------------------------------
(* The tokens the base lexer produces *)

Num(v) == Token(v, OPERAND, NUMBER)
Rng(v) == Token(v, OPERAND, RANGE)
Infix(v) == Token(v, OP_IN, NOSUB)
Prefix(v) == Token(v, OP_PRE, NOSUB)
Postfix(v) == Token(v, OP_POST, NOSUB)
Space(v) == Token(v, WSPACE, NOSUB)
FuncOpen(v) == Token(v, FUNC, OPEN)
FuncClose == Token(")", FUNC, CLOSE)
ParenOpen == Token("(", PAREN, OPEN)
ParenClose == Token(")", PAREN, CLOSE)
ArrayOpen == Token("{", ARRAY, OPEN)
ArrayClose == Token("}", ARRAY, CLOSE)
ArgSep == Token(",", SEP, ARG)
RowSep == Token(";", SEP, ROW)

-----------------------------------------------------------------------------
(* The compilation as a state machine *)

EmptyGraph == [nodes |-> {}, pos |-> [x \in {} |-> 0], edges |-> {}]

\* emit(context=None): no context
NoContext == [given |-> FALSE, sheet |-> "", degree |-> 0, coef |-> 0]

InitWithContext(formula, ctx) ==
    /\ raw = formula
    /\ context = ctx
    /\ items = <<>>
    /\ tokens = <<>>
    /\ i = 0
    /\ output = <<>>
    /\ stack = <<>>
    /\ were_values = <<>>
    /\ arg_count = <<>>
    /\ j = 0
    /\ bstack = <<>>
    /\ ast = EmptyGraph
    /\ root = 0
    /\ code = ""
    /\ err = NoError
    /\ pc = "lex"

InitWith(formula) == InitWithContext(formula, NoContext)

\* Tokenizer.__init__: self.items = self._items()
Lex ==
    /\ pc = "lex"
    /\ items' = Tokenizer_items(raw)
    /\ pc' = "amend"
    /\ UNCHANGED <<raw, context, tokens, i, output, stack, were_values, arg_count,
                   j, bstack, ast, root, code, err>>

\* parse_to_rpn: amend the token stream, set up the empty queues
Amend ==
    /\ pc = "amend"
    /\ tokens' = AmendTokens(items)
    /\ i' = 1
    /\ output' = <<>>
    /\ stack' = <<>>
    /\ were_values' = <<>>
    /\ arg_count' = <<>>
    /\ pc' = "rpn"
    /\ UNCHANGED <<raw, context, items, j, bstack, ast, root, code, err>>

\* parse_to_rpn: one iteration of `for token in tokens`
RpnStep ==
    /\ pc = "rpn"
    /\ i <= Len(tokens)
    /\ LET S == RpnToken(tokens[i],
                         RpnState(output, stack, were_values, arg_count, NoError))
       IN  /\ output' = S.output
           /\ stack' = S.stack
           /\ were_values' = S.were_values
           /\ arg_count' = S.arg_count
           /\ err' = S.err
           /\ i' = IF S.err = NoError THEN i + 1 ELSE i
           /\ pc' = IF S.err = NoError THEN "rpn" ELSE "raised"
    /\ UNCHANGED <<raw, context, items, tokens, j, bstack, ast, root, code>>

\* parse_to_rpn: the loop is over, flush the stack and return the output;
\* build_ast: start with an empty graph and an empty production stack
RpnEnd ==
    /\ pc = "rpn"
    /\ i > Len(tokens)
    /\ LET F == RpnFlush(stack, output)
       IN  /\ output' = F.output
           /\ stack' = F.stack
           /\ err' = F.err
           /\ pc' = IF F.err = NoError THEN "build" ELSE "raised"
    /\ j' = 1
    /\ bstack' = <<>>
    /\ ast' = EmptyGraph
    /\ UNCHANGED <<raw, context, items, tokens, i, were_values, arg_count, root, code>>

\* build_ast: one iteration of `for node in rpn_expression`
BuildStep ==
    /\ pc = "build"
    /\ j <= Len(output)
    /\ LET B == BuildNode(j, output[j], bstack, ast)
       IN  /\ bstack' = B.bstack
           /\ ast' = B.graph
           /\ err' = B.err
           /\ j' = IF B.err = NoError THEN j + 1 ELSE j
           /\ pc' = IF B.err = NoError THEN "build" ELSE "raised"
    /\ UNCHANGED <<raw, context, items, tokens, i, output, stack, were_values, arg_count,
                   root, code>>

\* build_ast: assert 1 == len(stack); return stack[0]
BuildEnd ==
    /\ pc = "build"
    /\ j > Len(output)
    /\ IF Len(bstack) = 1
       THEN /\ root' = bstack[1]
            /\ pc' = "emit"
            /\ err' = err
       ELSE /\ root' = root
            /\ pc' = "raised"
            /\ err' = Raise("AssertionError", "")
    /\ UNCHANGED <<raw, context, items, tokens, i, output, stack, were_values, arg_count,
                   j, bstack, ast, code>>

\* root.emit()
Emit ==
    /\ pc = "emit"
    /\ LET e == emit(root)
       IN  /\ code' = e.text
           /\ err' = e.err
           /\ pc' = IF e.err = NoError THEN "done" ELSE "raised"
    /\ UNCHANGED <<raw, context, items, tokens, i, output, stack, were_values, arg_count,
                   j, bstack, ast, root>>

Next == Lex \/ Amend \/ RpnStep \/ RpnEnd \/ BuildStep \/ BuildEnd \/ Emit

-----------------------------------------------------------------------------
(* Bounded sets of formulas *)

MaxOps == 3          \* operators in an unparenthesized arithmetic formula
MaxBracketLen == 4   \* tokens in a formula over brackets
MaxLexLen == 4       \* raw tokens in a formula with whitespace
MaxRows == 3         \* rows of an array literal
MaxCols == 3         \* operands in a row of an array literal
MaxLinestArgs == 2  \* arguments of a regression call
MaxDegree == 2      \* degree the degree resolution answers
MaxCoef == 2        \* coefficient index the degree resolution answers
MaxArgs == 4         \* arguments of a function call

NumStr ==
    <<"1", "2", "3", "4", "5", "6", "7", "8", "9", "10", "11", "12", "13",
      "14", "15", "16", "17", "18", "19", "20", "21", "22", "23", "24", "25">>

SeqsUpTo(A, n) == UNION {[1..k -> A] : k \in 0..n}

RECURSIVE JoinWith(_, _, _)
\* the sequences ss[k], ss[k+1], ... joined with the token sep between them
JoinWith(ss, sep, k) ==
    IF k > Len(ss) THEN <<>>
    ELSE IF k = Len(ss) THEN ss[k]
    ELSE ss[k] \o <<sep>> \o JoinWith(ss, sep, k + 1)

\* operand (op operand)*, the k-th operand being the number k
BinOps == {"+", "-", "*", "/", "^"}
ArithTokens(ops) ==
    [k \in 1..(2 * Len(ops) + 1) |->
        IF k % 2 = 1 THEN Num(NumStr[(k + 1) \div 2]) ELSE Infix(ops[k \div 2])]
ArithFormulas == {ArithTokens(ops) : ops \in SeqsUpTo(BinOps, MaxOps)}

\* any sequence over brackets, an operand, an operator and the separators in
\* which a closer that closes an opener has the opener's kind (the base
\* lexer derives a closer's type from the opener it closes)
BracketAlphabet ==
    {ParenOpen, ParenClose, FuncOpen("SUM("), FuncClose, ArrayOpen, ArrayClose,
     Num("1"), Infix("+"), ArgSep, RowSep}
IsOpener(t) == t.subtype = OPEN /\ t.type \in {PAREN, FUNC, ARRAY}
IsCloser(t) == t.subtype = CLOSE /\ t.type \in {PAREN, FUNC, ARRAY}
RECURSIVE BracketScan(_, _, _)
\* [crossed: a closer met an opener of another kind,
\*  unmatched: a closer with no opener, or an opener never closed]
BracketScan(s, k, open) ==
    IF k > Len(s) THEN [crossed |-> FALSE, unmatched |-> open # <<>>]
    ELSE IF IsOpener(s[k]) THEN BracketScan(s, k + 1, Append(open, s[k].type))
    ELSE IF IsCloser(s[k])
        THEN IF open = <<>>
             THEN [BracketScan(s, k + 1, open) EXCEPT !.unmatched = TRUE]
             ELSE IF Top(open) # s[k].type
             THEN [BracketScan(s, k + 1, Pop(open)) EXCEPT !.crossed = TRUE]
             ELSE BracketScan(s, k + 1, Pop(open))
    ELSE BracketScan(s, k + 1, open)
Unmatched(s) == BracketScan(s, 1, <<>>).unmatched
BracketFormulas ==
    {s \in SeqsUpTo(BracketAlphabet, MaxBracketLen) : ~BracketScan(s, 1, <<>>).crossed}

\* raw token lists with whitespace tokens anywhere
LexAlphabet ==
    {Space(" "), Num("1"), Rng("A1"), Infix("+"), ParenOpen, ParenClose,
     FuncOpen("SUM("), FuncClose}
LexFormulas == SeqsUpTo(LexAlphabet, MaxLexLen)

\* array literals: shape[r] operands in row r, all operands distinct numbers
ArrayShapes == UNION {[1..r -> 1..MaxCols] : r \in 1..MaxRows}
RECURSIVE ElementsBefore(_, _)
ElementsBefore(shape, r) ==
    IF r = 1 THEN 0 ELSE ElementsBefore(shape, r - 1) + shape[r - 1]
ElementStr(shape, r, c) == NumStr[ElementsBefore(shape, r) + c]
RowTokens(shape, r) ==
    JoinWith([c \in 1..shape[r] |-> <<Num(ElementStr(shape, r, c))>>], ArgSep, 1)
ArrayTokens(shape) ==
    <<ArrayOpen>> \o JoinWith([r \in 1..Len(shape) |-> RowTokens(shape, r)], RowSep, 1)
        \o <<ArrayClose>>
ArrayFormulas == {ArrayTokens(shape) : shape \in ArrayShapes}

\* left op right for every infix operator the operator table knows, alone,
\* as a function argument and as an operand of another operator
CompareOps == {"+", "-", "*", "/", "^", "&", "=", "<", ">", "<=", ">=", "<>"}
Sides ==
    {<<Num("3")>>, <<Rng("A1")>>,
     <<ParenOpen, Num("1"), Infix("+"), Num("2"), ParenClose>>,
     <<FuncOpen("SUM("), Num("1"), FuncClose>>}
CompareTokens(l, op, r) == l \o <<Infix(op)>> \o r
Comparisons == {CompareTokens(l, op, r) : l \in Sides, op \in CompareOps, r \in Sides}
CompareFormulas ==
    Comparisons
    \cup {<<FuncOpen("SUM(")>> \o c \o <<FuncClose>> : c \in Comparisons}
    \cup {<<ParenOpen>> \o c \o <<ParenClose, Infix("="), Num("1")>> : c \in Comparisons}

\* function calls with 0..MaxArgs arguments, alone or inside a formula
FuncNames == {"SUM(", "IF(", "NOW("}
GoodArgs ==
    {<<Num("1")>>, <<Rng("A1")>>, <<Num("1"), Infix("+"), Num("2")>>}
ArgForms == GoodArgs \cup {<<Num("2"), Infix("+")>>}
CallTokens(f, args) == <<FuncOpen(f)>> \o JoinWith(args, ArgSep, 1) \o <<FuncClose>>
Calls(forms) == {CallTokens(f, args) : f \in FuncNames, args \in SeqsUpTo(forms, MaxArgs)}
InContext(calls) ==
    calls
    \cup {<<FuncOpen("SUM(")>> \o c \o <<FuncClose>> : c \in calls}
    \cup {<<Num("1"), Infix("+")>> \o c : c \in calls}

\* single formulas
NamedFormulas ==
    {<<>>,
     <<Num("1")>>,
     <<Rng("A1")>>,
     <<Num("2"), Infix("*"), Prefix("+"), Num("3")>>,
     <<Num("2"), Infix("*"), Prefix("-"), Num("3")>>,
     <<Num("1"), Infix("-"), Prefix("+"), Num("2")>>,
     <<Prefix("-"), Num("1")>>,
     <<Num("5"), Postfix("%")>>,
     <<FuncOpen("NOW("), FuncClose>>,
     <<ParenOpen, Num("1"), ParenClose, ParenOpen, Num("2"), ParenClose>>,
     <<Num("1"), Num("2")>>}

CallFormulas == InContext(Calls(ArgForms)) \cup NamedFormulas

\* regression calls under both names, with 0..MaxLinestArgs arguments, as the
\* whole formula (bare or parenthesized) and nested in each kind of node
LinestNames == {"LINEST(", "LINESTMARIO("}
LinestArgForms == {<<Rng("A1:B2")>>, <<Rng("A1"), Infix("^"), Num("2")>>}
Places == {"top", "paren", "sum", "plus", "times", "neg", "if", "array", "linest"}
LinestCases ==
    [name : LinestNames, args : SeqsUpTo(LinestArgForms, MaxLinestArgs), place : Places]
PlaceTokens(place, call) ==
    CASE place = "top" -> call
      [] place = "paren" -> <<ParenOpen>> \o call \o <<ParenClose>>
      [] place = "sum" -> <<FuncOpen("SUM(")>> \o call \o <<FuncClose>>
      [] place = "plus" -> <<Num("1"), Infix("+")>> \o call
      [] place = "times" -> call \o <<Infix("*"), Num("2")>>
      [] place = "neg" -> <<Prefix("-")>> \o call
      [] place = "if" ->
            <<FuncOpen("IF(")>> \o call \o <<ArgSep, Num("1"), ArgSep, Num("2"), FuncClose>>
      [] place = "array" -> <<ArrayOpen>> \o call \o <<ArrayClose>>
      [] place = "linest" -> <<FuncOpen("LINEST(")>> \o call \o <<FuncClose>>
LinestTokens(c) == PlaceTokens(c.place, CallTokens(c.name, c.args))
LinestFormulas == {LinestTokens(c) : c \in LinestCases}

\* the contexts emit is called with: none, or one whose degree resolution
\* answers (degree, coef)
Contexts ==
    {NoContext}
    \cup {[given |-> TRUE, sheet |-> "Sheet1", degree |-> d, coef |-> c] :
            d \in 1..MaxDegree, c \in 1..MaxCoef}

AllFormulas ==
    ArithFormulas \cup BracketFormulas \cup LexFormulas \cup ArrayFormulas
        \cup CompareFormulas \cup CallFormulas

Init == \E f \in AllFormulas : InitWith(f)
InitArith == \E f \in ArithFormulas : InitWith(f)
InitBracket == \E f \in BracketFormulas : InitWith(f)
InitLex == \E f \in LexFormulas : InitWith(f)
InitArray == \E f \in ArrayFormulas : InitWith(f)
InitCompare == \E f \in CompareFormulas : InitWith(f)
InitCall == \E f \in CallFormulas : InitWith(f)
InitLinest == \E f \in LinestFormulas, ctx \in Contexts : InitWithContext(f, ctx)

Spec == Init /\ [][Next]_vars
SpecArith == InitArith /\ [][Next]_vars
SpecBracket == InitBracket /\ [][Next]_vars
SpecLex == InitLex /\ [][Next]_vars
SpecArray == InitArray /\ [][Next]_vars
SpecCompare == InitCompare /\ [][Next]_vars
SpecCall == InitCall /\ [][Next]_vars
SpecLinest == InitLinest /\ [][Next]_vars

-----------------------------------------------------------------------------
(* Properties *)

Returned == pc \in {"emit", "done"}     \* build_ast returned a node
Compiled == pc = "done"                 \* emit returned the code

\* the tree below node n written with every operator node parenthesized,
\* read off the graph by children order (not by emit)
RECURSIVE TreeText(_)
TreeText(n) ==
    IF output[n].cls = "OperatorNode" /\ Len(children(n)) = 2
    THEN "(" \o TreeText(children(n)[1]) \o output[n].token.value
             \o TreeText(children(n)[2]) \o ")"
    ELSE output[n].token.value

(* C1 *)
\* the operators of operand (op operand)*
OpsOf(f) == [k \in 1..((Len(f) - 1) \div 2) |-> f[2 * k].value]

\* the precedence levels the claim states: ^ above * and /, above + and -
Level(op) == CASE op = "^" -> 3 [] op \in {"*", "/"} -> 2 [] OTHER -> 1

\* the operator applied last between operands lo..hi: the lowest level, and
\* of those the rightmost (equal levels group left-to-right)
SplitAt(ops, lo, hi) ==
    CHOOSE p \in lo..(hi - 1) :
        \A q \in lo..(hi - 1) :
            Level(ops[p]) < Level(ops[q]) \/ (Level(ops[p]) = Level(ops[q]) /\ q <= p)

RECURSIVE GroupTree(_, _, _)
GroupTree(ops, lo, hi) ==
    IF lo = hi THEN NumStr[lo]
    ELSE LET p == SplitAt(ops, lo, hi)
         IN  "(" \o GroupTree(ops, lo, p) \o ops[p] \o GroupTree(ops, p + 1, hi) \o ")"

RECURSIVE GroupText(_, _, _, _)
GroupText(ops, lo, hi, top) ==
    IF lo = hi THEN NumStr[lo]
    ELSE LET p == SplitAt(ops, lo, hi)
             t == GroupText(ops, lo, p, FALSE) \o " "
                     \o (IF ops[p] = "^" THEN "**" ELSE ops[p]) \o " "
                     \o GroupText(ops, p + 1, hi, FALSE)
         IN  IF top THEN t ELSE "(" \o t \o ")"

\* C1: an unparenthesized formula over + - * / ^ compiles, its tree groups by
\* the precedence levels with equal levels left-to-right, and the emitted text
\* parenthesizes every operator below another operator, so it groups the same
C1_PrecedenceGrouping ==
    /\ pc # "raised"
    /\ Returned => TreeText(root) = GroupTree(OpsOf(raw), 1, Len(OpsOf(raw)) + 1)
    /\ Compiled => code = GroupText(OpsOf(raw), 1, Len(OpsOf(raw)) + 1, TRUE)

C1_Witness ==
    /\ Compiled
    /\ OpsOf(raw) = <<"-", "-", "^">>
    /\ code = "(1 - 2) - (3 ** 4)"

AcceptsArity(f, n) ==
    CASE f = "SUM(" -> n >= 1
      [] f = "IF(" -> n \in {2, 3}
      [] f = "NOW(" -> n = 0

\* bracket-balanced, arity-correct formulas: calls with an accepted number of
\* complete arguments (alone, as an argument, as a right operand), and the
\* operator placements the claim names
WellFormedCalls ==
    {CallTokens(q[1], q[2]) :
        q \in {q \in FuncNames \X SeqsUpTo(GoodArgs, MaxArgs) :
                  AcceptsArity(q[1], Len(q[2]))}}
WellFormedFormulas ==
    InContext(WellFormedCalls)
    \cup {<<Num("1")>>,
          <<Rng("A1")>>,
          <<Prefix("-"), Num("1")>>,
          <<Num("2"), Infix("*"), Prefix("+"), Num("3")>>,
          <<Num("2"), Infix("*"), Prefix("-"), Num("3")>>,
          <<Num("1"), Infix("-"), Prefix("+"), Num("2")>>,
          <<Num("5"), Postfix("%")>>}

\* C3: a bracket-balanced, arity-correct formula goes through parse_to_rpn,
\* build_ast and emit without any exception
C3_WellFormedCompiles == raw \in WellFormedFormulas => pc # "raised"

(* C4 *)
\* C4: whatever the compilation rejects, it rejects with ParserError; also
\* when build_ast ends with a production stack that does not hold one node
C4_RejectsWithParserError == pc = "raised" => err.kind = "ParserError"

(* C5 *)
RECURSIVE ClaimedItems(_, _)
\* the token list the claim describes: whitespace between a value end and a
\* value start becomes INTERSECT, any other whitespace is removed
ClaimedItems(t, k) ==
    IF k > Len(t) THEN <<>>
    ELSE (IF t[k].type # WSPACE THEN <<t[k]>>
          ELSE IF k = 1 \/ k = Len(t) THEN <<>>
          ELSE IF /\ \/ (t[k - 1].type \in {FUNC, PAREN} /\ t[k - 1].subtype = CLOSE)
                     \/ t[k - 1].type = OPERAND
                  /\ \/ (t[k + 1].type \in {FUNC, PAREN} /\ t[k + 1].subtype = OPEN)
                     \/ t[k + 1].type = OPERAND
               THEN <<Token(t[k].value, OP_IN, INTERSECT)>>
               ELSE <<>>)
         \o ClaimedItems(t, k + 1)

\* C5: Tokenizer._items keeps the non-whitespace tokens in order, turns a
\* whitespace token between a value end and a value start into INTERSECT and
\* removes every other whitespace token, the first and the last included
C5_ItemsAsClaimed == pc # "lex" => items = ClaimedItems(raw, 1)

(* C6 *)
RECURSIVE ShapeOf(_, _, _)
\* the operands per row of an array literal, read off its tokens from the
\* k-th on (count: operands seen in the current row)
ShapeOf(t, k, count) ==
    IF k > Len(t) THEN <<count>>
    ELSE IF t[k] = RowSep THEN <<count>> \o ShapeOf(t, k + 1, 0)
    ELSE ShapeOf(t, k + 1, IF t[k].type = OPERAND THEN count + 1 ELSE count)

RECURSIVE JoinText(_, _)
\* ", ".join of the strings ts[k], ts[k+1], ...
JoinText(ts, k) ==
    IF k > Len(ts) THEN ""
    ELSE IF k = Len(ts) THEN ts[k]
    ELSE ts[k] \o ", " \o JoinText(ts, k + 1)

RowText(shape, r) == JoinText([c \in 1..shape[r] |-> ElementStr(shape, r, c)], 1)

\* one flat list for one row, a list of row lists for more rows
ArrayText(shape) ==
    IF Len(shape) = 1 THEN "[" \o RowText(shape, 1) \o "]"
    ELSE "[" \o JoinText([r \in 1..Len(shape) |-> "[" \o RowText(shape, r) \o "]"], 1)
             \o "]"

\* the returned tree: ARRAY over its rows over their operands, in pos order
ArrayTree(shape) ==
    LET rows == children(root)
    IN  /\ root \in ast.nodes
        /\ output[root].cls = "FunctionNode"
        /\ output[root].token.type = ARRAY
        /\ output[root].num_args = Len(shape)
        /\ Len(rows) = Len(shape)
        /\ \A r \in 1..Len(shape) :
              /\ output[rows[r]].cls = "FunctionNode"
              /\ output[rows[r]].token.type = ARRAYROW
              /\ output[rows[r]].num_args = shape[r]
              /\ ast.pos[rows[r]] = r - 1
              /\ Len(children(rows[r])) = shape[r]
              /\ \A c \in 1..shape[r] :
                    /\ output[children(rows[r])[c]].token = Num(ElementStr(shape, r, c))
                    /\ ast.pos[children(rows[r])[c]] = c - 1

\* C6: an array literal of r rows with c_i operands each compiles to one ARRAY
\* node with num_args = r over r ARRAYROW nodes with num_args = c_i over the
\* row's operands in source order, and emits a flat list for r = 1 and a list
\* of row lists for r > 1
C6_ArrayLiteral ==
    LET shape == ShapeOf(raw, 1, 0)
    IN  /\ shape \in ArrayShapes
        /\ raw = ArrayTokens(shape)
        /\ pc # "raised"
        /\ Returned => ArrayTree(shape)
        /\ Compiled => code = ArrayText(shape)

C6_Witness ==
    /\ Compiled
    /\ raw = ArrayTokens(<<2, 2>>)
    /\ output[root].num_args = 2
    /\ code = "[[1, 2], [3, 4]]"

(* C7 *)
SideText(side) ==
    CASE side = <<Num("3")>> -> "3"
      [] side = <<Rng("A1")>> -> "eval_cell(\"A1\")"
      [] side = <<ParenOpen, Num("1"), Infix("+"), Num("2"), ParenClose>> -> "(1 + 2)"
      [] side = <<FuncOpen("SUM("), Num("1"), FuncClose>> -> "xsum(1)"

SideIsNumber(side) == side = <<Num("3")>>

TargetOp(op) == CASE op = "^" -> "**" [] op = "=" -> "==" [] op = "&" -> "+" [] OTHER -> op

ZeroForEmpty(text) == "(" \o text \o " if " \o text \o " is not None else 0)"

\* the text the claim describes: the left side of < and <= and the right side
\* of > and >= substitute zero unless that side is a literal number; nothing
\* else is guarded
ClaimedCompare(l, op, r) ==
    (IF op \in {"<", "<="} /\ ~SideIsNumber(l) THEN ZeroForEmpty(SideText(l))
     ELSE SideText(l))
    \o " " \o TargetOp(op) \o " " \o
    (IF op \in {">", ">="} /\ ~SideIsNumber(r) THEN ZeroForEmpty(SideText(r))
     ELSE SideText(r))

\* C7: zero is substituted for the empty-cell sentinel only in < <= (left
\* side) and > >= (right side), only for a side that is not a literal number,
\* and never for another operator, = and <> included
C7_GuardAsClaimed ==
    Compiled =>
        \A l \in Sides, op \in CompareOps, r \in Sides :
            /\ raw = CompareTokens(l, op, r) => code = ClaimedCompare(l, op, r)
            /\ raw = <<FuncOpen("SUM(")>> \o CompareTokens(l, op, r) \o <<FuncClose>>
                  => code = "xsum(" \o ClaimedCompare(l, op, r) \o ")"
            /\ raw = <<ParenOpen>> \o CompareTokens(l, op, r)
                        \o <<ParenClose, Infix("="), Num("1")>>
                  => code = "(" \o ClaimedCompare(l, op, r) \o ") == 1"

(* C8 *)
ArgText(arg) ==
    CASE arg = <<Num("1")>> -> "1"
      [] arg = <<Rng("A1")>> -> "eval_cell(\"A1\")"
      [] arg = <<Num("1"), Infix("+"), Num("2")>> -> "1 + 2"

\* (arg1 if arg0 else arg2), the else part 0 when there are two arguments
ClaimedIf(args) ==
    "(" \o ArgText(args[2]) \o " if " \o ArgText(args[1]) \o " else "
        \o (IF Len(args) = 3 THEN ArgText(args[3]) ELSE "0") \o ")"

\* the outcome the claim gives an IF call whose text in the formula is
\* before \o <the call> \o after
IfOutcome(args, before, after) ==
    IF Len(args) \in {2, 3}
    THEN pc = "done" /\ code = before \o ClaimedIf(args) \o after
    ELSE pc = "raised" /\ err.kind = "ParserError"

\* C8: an IF call with 2 or 3 arguments compiles to the conditional, and with
\* any other number of arguments raises ParserError, wherever the call stands:
\* as the whole formula, as an argument, as an operand
C8_IfArity ==
    pc \in {"done", "raised"} =>
        \A args \in SeqsUpTo(GoodArgs, MaxArgs) :
            LET call == CallTokens("IF(", args)
            IN  /\ raw = call => IfOutcome(args, "", "")
                /\ raw = <<FuncOpen("SUM(")>> \o call \o <<FuncClose>>
                      => IfOutcome(args, "xsum(", ")")
                /\ raw = <<Num("1"), Infix("+")>> \o call
                      => IfOutcome(args, "1 + ", "")

(* C9 *)
\* C9: in a tree build_ast returns, every Function node has exactly num_args
\* children (no function reduction attaches fewer nodes than its num_args)
C9_FunctionChildren ==
    Returned =>
        \A n \in 1..Len(output) :
            output[n].cls = "FunctionNode"
                => Cardinality(Predecessors(n)) = output[n].num_args

(* C10 *)
RECURSIVE Up(_, _)
\* the node k edges above n (0 past the top, or for a node outside the graph)
Up(n, k) ==
    IF k = 0 \/ n = 0 THEN n
    ELSE Up(IF n \in ast.nodes THEN parent(n) ELSE 0, k - 1)

\* C10: the graph of a returned tree holds every postfix node, every node has
\* at most one outgoing edge, the returned node is the only one with none and
\* is reached from every node, no node reaches itself, and the operands of an
\* infix operator are its left operand at pos 0 and its right operand at pos 1
C10_RootedTree ==
    Returned =>
        /\ ast.nodes = 1..Len(output)
        /\ \A n \in ast.nodes : Cardinality(Successors(n)) <= 1
        /\ {n \in ast.nodes : Successors(n) = {}} = {root}
        /\ \A n \in ast.nodes : \E k \in 0..Len(output) : Up(n, k) = root
        /\ \A n \in ast.nodes : \A k \in 1..Len(output) : Up(n, k) # n
        /\ \A n \in ast.nodes :
              (output[n].cls = "OperatorNode" /\ output[n].token.type = OP_IN)
                  => /\ Len(children(n)) = 2
                     /\ ast.pos[children(n)[1]] = 0
                     /\ ast.pos[children(n)[2]] = 1
                     /\ children(n)[1] < children(n)[2]

(* C11 *)
\* the degree and coefficient index func_linest works with
Degree == IF context.given THEN context.degree ELSE -1
Coef == IF context.given THEN context.coef ELSE -1

Nested(place) == place \notin {"top", "paren"}

\* an argument as emitted below a regression call: the power is dropped
\* below LINEST only
LinestArgText(name, arg) ==
    LET sheet == IF context.given THEN context.sheet \o "!" ELSE ""
        cell == "eval_cell(\"" \o sheet \o "A1\")"
    IN  IF arg = <<Rng("A1:B2")>> THEN "eval_range(\"" \o sheet \o "A1:B2\")"
        ELSE IF name = "LINEST(" THEN cell
        ELSE cell \o " ** 2"

RECURSIVE LinestArgsText(_, _, _)
LinestArgsText(name, args, k) ==
    IF k > Len(args) THEN ""
    ELSE IF k = Len(args) THEN LinestArgText(name, args[k])
    ELSE LinestArgText(name, args[k]) \o ", " \o LinestArgsText(name, args, k + 1)

\* the call without the suffix: the degree argument under the name LINEST only
LinestCallText(name, inner) ==
    IF name = "LINEST("
    THEN "linest(" \o inner \o ", degree=" \o ToString(Degree) \o ")"
    ELSE "linestmario(" \o inner \o ")"

IndexSuffix == "[" \o ToString(Coef - 1) \o "]"

\* the code of case c when the suffix is left out exactly where Omit says
LinestCaseText(c, Omit(_)) ==
    LET T == LinestCallText(c.name, LinestArgsText(c.name, c.args, 1))
                 \o (IF Omit(Nested(c.place)) THEN "" ELSE IndexSuffix)
    IN  CASE c.place \in {"top", "paren"} -> T
          [] c.place = "sum" -> "xsum(" \o T \o ")"
          [] c.place = "plus" -> "1 + " \o T
          [] c.place = "times" -> T \o " * 2"
          [] c.place = "neg" -> "-" \o T
          [] c.place = "if" -> "(1 if " \o T \o " else 2)"
          [] c.place = "array" -> "[" \o T \o "]"
          [] c.place = "linest" ->
                LinestCallText("LINEST(", T) \o (IF Omit(FALSE) THEN "" ELSE IndexSuffix)

\* the suffix is left out only for a call with no parent and degree 1
OmitTopLevel(nested) == ~nested /\ Degree = 1

\* the suffix is left out only for a call with a parent and degree 1
OmitNested(nested) == nested /\ Degree = 1

\* C11 (as stated): func_linest appends the suffix [coef-1] to the emitted call
\* in every case except one: the node has no parent and the degree is 1; a
\* nested call and a call with another degree (the no-context -1 included)
\* always carry the suffix
C11_SuffixUnlessTopLevel ==
    Compiled =>
        \A c \in LinestCases :
            raw = LinestTokens(c) => code = LinestCaseText(c, OmitTopLevel)

\* C11 (amended): whenever func_linest returns, the emitted call carries the
\* suffix [coef-1] in every case except one: the node has a parent and the
\* degree is 1; a call with no parent and a call with another degree (the
\* no-context -1 included, its suffix being [-2]) always carry the suffix
C11_SuffixUnlessNested ==
    Compiled =>
        \A c \in LinestCases :
            raw = LinestTokens(c) => code = LinestCaseText(c, OmitNested)

\* a nested call of degree 1 was emitted without the suffix
C11_Witness ==
    /\ Compiled
    /\ context.given /\ context.degree = 1 /\ context.coef = 2
    /\ raw = <<FuncOpen("SUM("), FuncOpen("LINEST("), Rng("A1:B2"), FuncClose, FuncClose>>
    /\ code = "xsum(linest(eval_range(\"Sheet1!A1:B2\"), degree=1))"

====
